---- MODULE Spec2Model ----
(***************************************************************************)
(* A model of the static linker `cold` (src/src/link.rs): the pipeline of  *)
(* link() from path resolution to the written executable image.            *)
(*                                                                         *)
(* Maps (BTreeMap<String, _>) are functions whose domain is the key set;   *)
(* their iteration order is the byte-lexicographic order of the keys.      *)
(* Byte vectors are sequences of integers in 0..255.                       *)
(***************************************************************************)
EXTENDS Integers, Sequences, FiniteSets, TLC

\* ------------------------------------------------------------------------
\* Bounds of the model
\* ------------------------------------------------------------------------

\* Largest number of entries of opt.obj_file
MaxFiles == 2

\* ------------------------------------------------------------------------
\* Program constants
\* ------------------------------------------------------------------------

\* link.rs:276  let load_address = 0x400000;
load_address == 4194304

\* link.rs:278  writer.reserve(.., 4096)
PageAlign == 4096

\* link.rs:271  writer.reserve_file_header(): an ELF64 file header
FileHeaderLen == 64

\* link.rs:273  writer.reserve_program_headers(1): one ELF64 program header
ProgramHeaderLen == 56

\* ------------------------------------------------------------------------
\* Strings and their order (String: Ord is byte-lexicographic)
\* ------------------------------------------------------------------------

\* Every section and symbol name of the model, in byte-lexicographic order
\* ('.' = 0x2e < '_' = 0x5f < 'a'..'z').
NameOrder ==
  << "", ".bss", ".data", ".rela.text", ".symtab", ".text",
     "_start", "bar", "data", "foo" >>

Rank(n) == CHOOSE i \in 1..Len(NameOrder) : NameOrder[i] = n

\* name.starts_with(".rela"), over the names of the model
StartsWithRela(name) == name \in {".rela.text"}

\* ------------------------------------------------------------------------
\* Input universe: decoded views of the files named on the command line
\* ------------------------------------------------------------------------

SectionNames == {"", ".bss", ".data", ".rela.text", ".symtab", ".text"}

DataLens == {0, 16, 32}

\* (name, size) of an input section: .bss carries no file data, and only
\* .text comes in two sizes.
Shapes ==
  { s \in [name : SectionNames, size : DataLens] :
      /\ (s.name = ".bss") <=> (s.size = 0)
      /\ (s.size = 32) => (s.name = ".text") }

Shape(n, z) == [name |-> n, size |-> z]

\* The i-th data byte of an input section: a pattern that tells sections of
\* different name or size apart.
Fill(s, i) == (16 * Rank(s.name) + s.size + i) % 256

\* InputSection { name, data, flags (SHF_EXECINSTR), relocations }
MkSection(s, relocs) ==
  [ name        |-> s.name,
    data        |-> [i \in 1..s.size |-> Fill(s, i)],
    exec        |-> (s.name = ".text"),
    relocations |-> relocs ]

\* InputSymbol: kind is "Section" (STT_SECTION) or "Other"; loc says where
\* st_shndx points: "Undefined", "Absolute" or "Section" (section_index).
MkSymbol(n, k, l, ix, v) ==
  [name |-> n, kind |-> k, loc |-> l, section_index |-> ix, value |-> v]

\* InputRelocation: symbol is an index into the symbol table, 0 for none
\* (an absolute target).
MkReloc(off, k, a, sym) ==
  [offset |-> off, kind |-> k, addend |-> a, symbol |-> sym]

\* "R32S" = (Absolute, X86Signed, 32), "PLT32" = (PltRelative, Generic, 32),
\* "Other" = any other (kind, encoding, size).
RelocKinds == {"R32S", "PLT32", "Other"}

NoRelocs == << >>

PlainSections(shapes) == [i \in 1..Len(shapes) |-> MkSection(shapes[i], NoRelocs)]

StartSymbol == MkSymbol("_start", "Other", "Section", 1, 0)

FooSymbol == MkSymbol("foo", "Other", "Section", 1, 0)

\* Family 1: the section list varies; `_start` (or, for a single section,
\* `foo`) is defined at .text + 0.
SectionLists ==
  { q \in UNION { [1..n -> Shapes] : n \in 1..2 } :
      /\ q[1].name = ".text"
      /\ (Len(q) = 2) => (q[1].size = 16 /\ q[2] # q[1]) }

\* Family 2 and 3 share this section list.
DefaultShapes == << Shape(".text", 16), Shape(".data", 16), Shape(".bss", 0) >>

\* Family 2: one defined symbol varies (name, defining section, value).
SymbolChoices ==
  { y \in [ name : {"_start", "foo", "data"}, kind : {"Other"},
            loc : {"Section", "Absolute"}, section_index : 1..3,
            value : {0, 8} ] :
      /\ (y.value = 8) <=> (y.loc = "Section" /\ y.section_index = 2)
      /\ (y.loc = "Absolute") => (y.section_index = 1)
      /\ (y.name = "data") => (y.value = 8)
      /\ (y.name = "foo") => (y.loc = "Section" /\ y.section_index = 1) }

\* Family 3: one relocation in .text varies.  The symbol table is
\*   1: _start (defined), 2: foo (undefined), 3: data (undefined),
\*   4: bar (undefined), 5: section symbol of .data, 6: of .bss;
\* index 0 is an absolute target and index 7 is out of range.
RelocSymbols ==
  << StartSymbol,
     MkSymbol("foo", "Other", "Undefined", 0, 0),
     MkSymbol("data", "Other", "Undefined", 0, 0),
     MkSymbol("bar", "Other", "Undefined", 0, 0),
     MkSymbol("", "Section", "Section", 2, 0),
     MkSymbol("", "Section", "Section", 3, 0) >>

RelocChoices ==
  { r \in [ offset : {1, 4, 12, 14}, kind : RelocKinds, addend : {-4, 0, 4},
            symbol : 0..7 ] :
      /\ (r.offset = 1) <=> (r.addend = -4)
      /\ (r.offset = 12) <=> (r.addend = 4)
      /\ (r.kind = "PLT32") <=> (r.offset = 1)
      /\ (r.kind = "Other") => (r.offset = 4)
      /\ (r.symbol # 1) => (r.offset = 4 /\ r.kind = "R32S") }

Elf64Rel(secs, syms) ==
  [class |-> "ELF64", endian |-> "LSB", e_type |-> "REL",
   sections |-> secs, symbols |-> syms]

\* Family 4: three objects of their own.
\* .text with an R_X86_64_32S slot at offset 4 against `data`, which the
\* object defines at .data + 8
DataObject ==
  Elf64Rel([PlainSections(DefaultShapes) EXCEPT
              ![1].relocations = << MkReloc(4, "R32S", 0, 2) >>],
           << StartSymbol, MkSymbol("data", "Other", "Section", 2, 8) >>)

\* two sections named .text, the second with a relocation at its offset 4
TwoTextObject ==
  Elf64Rel([PlainSections(<< Shape(".text", 16), Shape(".text", 32) >>) EXCEPT
              ![2].relocations = << MkReloc(4, "R32S", 0, 1) >>],
           << StartSymbol >>)

\* an addend that takes the value of an R_X86_64_32S slot below zero
NegativeObject ==
  Elf64Rel([PlainSections(DefaultShapes) EXCEPT
              ![1].relocations = << MkReloc(4, "R32S", -8388608, 1) >>],
           << StartSymbol >>)

Bodies ==
  { DataObject, TwoTextObject, NegativeObject } \cup
  { Elf64Rel(PlainSections(q), << StartSymbol >>) : q \in SectionLists }
  \cup { Elf64Rel(PlainSections(q), << FooSymbol >>) :
           q \in { l \in SectionLists : Len(l) = 1 } }
  \cup { Elf64Rel(PlainSections(DefaultShapes), << y >>) : y \in SymbolChoices }
  \cup { Elf64Rel(PlainSections(DefaultShapes), << >>) }
  \cup { Elf64Rel([PlainSections(DefaultShapes) EXCEPT ![1].relocations = << r >>],
                  RelocSymbols) : r \in RelocChoices }

\* What the other files decode to: the same simple body under another
\* class, byte order or object type; an archive; or nothing decodable.
SimpleBody == Elf64Rel(PlainSections(<< Shape(".text", 16) >>), << StartSymbol >>)

Variants ==
  { [SimpleBody EXCEPT !.class = "ELF32"],
    [SimpleBody EXCEPT !.endian = "MSB"],
    [SimpleBody EXCEPT !.e_type = "EXEC"] }

SharedObject == [SimpleBody EXCEPT !.e_type = "DYN"]

Archive == [SimpleBody EXCEPT !.class = "AR", !.sections = << >>, !.symbols = << >>]

Garbage == [SimpleBody EXCEPT !.class = "NONE", !.sections = << >>, !.symbols = << >>]

Contents == Bodies \cup Variants \cup {Archive, Garbage}

\* ObjectFileOpt: File(FileOpt), Library(LibraryOpt), StartGroup, EndGroup.
\* ext is the suffix of the file name; readable and content are what the
\* file system holds under that name; so_found / a_found say whether
\* lib<name>.so / lib<name>.a exist in a search directory.
Entry(t, e, rd, c, st, so, a) ==
  [type |-> t, ext |-> e, readable |-> rd, content |-> c,
   link_static |-> st, so_found |-> so, a_found |-> a]

FileEntry(e, rd, c) == Entry("File", e, rd, c, FALSE, FALSE, FALSE)

Entries ==
  { FileEntry("o", TRUE, c) : c \in Contents \ {Archive} }
  \cup { FileEntry("a", TRUE, c) : c \in {Archive, Garbage} }
  \cup { FileEntry("o", FALSE, Garbage) }
  \cup { e \in { Entry("Library", "", TRUE, Garbage, st, so, a) :
                   st \in BOOLEAN, so \in BOOLEAN, a \in BOOLEAN } :
           /\ e.so_found = e.a_found
           /\ e.link_static => e.so_found }
  \cup { Entry("StartGroup", "", TRUE, Garbage, FALSE, FALSE, FALSE),
         Entry("EndGroup", "", TRUE, Garbage, FALSE, FALSE, FALSE) }

EntryLists == UNION { [1..n -> Entries] : n \in 1..MaxFiles }

\* ------------------------------------------------------------------------
\* State
\* ------------------------------------------------------------------------

VARIABLES
  obj_file,         \* opt.obj_file: the entries of the command line
  output,           \* opt.output: "Some" or "None"
  files,            \* the files read: [ext, content]
  parsed,           \* number of files the parse loop has gone through
  output_sections,  \* section name => OutputSection
  symbols,          \* symbol name => Symbol
  section_address,  \* section name => virtual address
  writer_len,       \* the writer's reserved length
  image,            \* the buffer the writer builds
  output_file,      \* the file at opt.output: [written, image]
  pc,               \* where link() stands
  result,           \* "Running", or how it ended: "Ok", "Err", "Panic"
  args,             \* parse_opts: the arguments
  iter,             \* parse_opts: number of arguments taken from the iterator
  opt,              \* parse_opts: the Opt under construction
  cur_opt_stack,    \* parse_opts: [as_needed, link_static] in effect
  opt_stack         \* parse_opts: the states saved by --push-state

\* The variables of link() and those of parse_opts()
linkvars ==
  << obj_file, output, files, parsed, output_sections, symbols,
     section_address, writer_len, image, output_file >>

optvars == << args, iter, opt, cur_opt_stack, opt_stack >>

vars ==
  << obj_file, output, files, parsed, output_sections, symbols,
     section_address, writer_len, image, output_file, pc, result,
     args, iter, opt, cur_opt_stack, opt_stack >>

\* BTreeMap<String, _>
EmptyMap == << >>

Get(m, k, d) == IF k \in DOMAIN m THEN m[k] ELSE d

Insert(m, k, v) == [x \in (DOMAIN m) \cup {k} |-> IF x = k THEN v ELSE m[x]]

\* (the keys in some other order, as a hash map may give them)
RECURSIVE Reverse(_)
Reverse(q) == IF q = << >> THEN << >> ELSE Reverse(Tail(q)) \o << Head(q) >>

KeysReversed(m) == Reverse(SelectSeq(NameOrder, LAMBDA n : n \in DOMAIN m))

\* Iteration over a BTreeMap: its keys in increasing order
BTreeKeys(m) == SelectSeq(NameOrder, LAMBDA n : n \in DOMAIN m)

NoImage ==
  [e_entry |-> 0, bodies |-> << >>, section_headers |-> << >>, symtab |-> << >>]

\* A command line without -o is tried with one entry only.
Init ==
  /\ obj_file \in EntryLists
  /\ output \in {"Some", "None"}
  /\ (output = "None") => (Len(obj_file) = 1)
  /\ files = << >>
  /\ parsed = 0
  /\ output_sections = EmptyMap
  /\ symbols = EmptyMap
  /\ section_address = EmptyMap
  /\ writer_len = 0
  /\ image = NoImage
  /\ output_file = [written |-> FALSE, image |-> NoImage]
  /\ pc = "path_resolution"
  /\ result = "Running"
  /\ args = << >>
  /\ iter = 0
  /\ opt = [output |-> << >>, obj_file |-> << >>]
  /\ cur_opt_stack = [as_needed |-> FALSE, link_static |-> FALSE]
  /\ opt_stack = << >>

\* link() ends: `?` or `return Err(..)` gives "Err", a panic gives "Panic"
Stop(how) ==
  /\ pc' = "end"
  /\ result' = how

\* ------------------------------------------------------------------------
\* path_resolution
\* ------------------------------------------------------------------------

\* lookup_file(lib<name>.so) / lookup_file(lib<name>.a) succeed
ResolvesTo(e) ==
  IF ~e.link_static /\ e.so_found THEN "so"
  ELSE IF e.a_found THEN "a"
  ELSE "none"

\* What the file system holds under the resolved library path
LibraryContent(ext) == IF ext = "so" THEN SharedObject ELSE Archive

ResolveEntry(e) ==
  IF e.type = "Library"
  THEN FileEntry(ResolvesTo(e), TRUE, LibraryContent(ResolvesTo(e)))
  ELSE e

PathResolution ==
  /\ pc = "path_resolution"
  /\ IF \E i \in 1..Len(obj_file) :
          obj_file[i].type = "Library" /\ ResolvesTo(obj_file[i]) = "none"
     THEN /\ Stop("Err")
          /\ UNCHANGED obj_file
     ELSE /\ obj_file' = [i \in 1..Len(obj_file) |-> ResolveEntry(obj_file[i])]
          /\ pc' = "read"
          /\ UNCHANGED result
  /\ UNCHANGED optvars
  /\ UNCHANGED << output, files, parsed, output_sections, symbols,
                  section_address, writer_len, image, output_file >>

\* ------------------------------------------------------------------------
\* read files
\* ------------------------------------------------------------------------

IsFile(e) == e.type = "File"

ObjectFile(e) == [ext |-> e.ext, content |-> e.content]

RECURSIVE ReadAll(_, _)
ReadAll(entries, i) ==
  IF i > Len(entries) THEN << >>
  ELSE IF IsFile(entries[i])
       THEN << ObjectFile(entries[i]) >> \o ReadAll(entries, i + 1)
       ELSE ReadAll(entries, i + 1)

ReadFiles ==
  /\ pc = "read"
  /\ IF \E i \in 1..Len(obj_file) : IsFile(obj_file[i]) /\ ~obj_file[i].readable
     THEN /\ Stop("Err")
          /\ UNCHANGED files
     ELSE /\ files' = ReadAll(obj_file, 1)
          /\ pc' = "parse"
          /\ UNCHANGED result
  /\ UNCHANGED optvars
  /\ UNCHANGED << obj_file, output, parsed, output_sections, symbols,
                  section_address, writer_len, image, output_file >>

\* ------------------------------------------------------------------------
\* parse files and resolve symbols
\* ------------------------------------------------------------------------

\* OutputSection::default()
DefaultOutputSection ==
  [name |-> "", content |-> << >>, offset |-> 0, relocations |-> << >>,
   is_executable |-> FALSE, section_index |-> 0]

\* section sizes prior to this object
SectionSizes(sections) ==
  [n \in DOMAIN sections |-> Len(sections[n].content)]

\* The sections that are not copied to the output
IsExcluded(name) ==
  \/ name \in {".symtab", ".strtab", ".shstrtab"}
  \/ StartsWithRela(name)
  \/ name = ""

RECURSIVE SumOfValues(_, _)
SumOfValues(m, keys) ==
  IF keys = {} THEN 0
  ELSE LET k == CHOOSE x \in keys : TRUE IN m[k] + SumOfValues(m, keys \ {k})

\* (rebased against all that the output holds, whatever the section)
RelocationOffsetAnySection(offset, section_sizes, name) ==
  offset + SumOfValues(section_sizes, DOMAIN section_sizes)

\* The rebased offset of a relocation of input section `name`
RelocationOffset(offset, section_sizes, name) ==
  offset + Get(section_sizes, name, 0)

\* One relocation of input section `name`, pushed to `out.relocations`.
\* st = [status, out]
\* (no extra recorded with a section target)
SectionExtraZero(section_sizes, target_section_name) == 0

\* *section_sizes.get(target_section_name).unwrap_or(&0): the size the
\* target section had before this object
SectionExtra(section_sizes, target_section_name) ==
  Get(section_sizes, target_section_name, 0)

PushRelocation(elf, name, section_sizes, st, r) ==
  IF r.symbol = 0
  THEN [st EXCEPT !.status = "Panic"]          \* _ => unimplemented!()
  ELSE IF r.symbol > Len(elf.symbols)
  THEN [st EXCEPT !.status = "Err"]            \* elf.symbol_by_index(..)?
  ELSE
    LET symbol == elf.symbols[r.symbol] IN
    IF symbol.kind = "Section"
    THEN
      IF symbol.loc # "Section"
      THEN [st EXCEPT !.status = "Panic"]      \* section_index().unwrap()
      ELSE IF symbol.section_index \notin 1..Len(elf.sections)
      THEN [st EXCEPT !.status = "Err"]        \* elf.section_by_index(..)?
      ELSE
        LET target_section_name == elf.sections[symbol.section_index].name IN
        [st EXCEPT !.out.relocations = Append(@,
           [offset |-> RelocationOffset(r.offset, section_sizes, name),
            kind   |-> r.kind,
            addend |-> r.addend,
            target |-> [type  |-> "Section",
                        name  |-> target_section_name,
                        extra |-> SectionExtra(section_sizes,
                                               target_section_name)]])]
    ELSE
      [st EXCEPT !.out.relocations = Append(@,
         [offset |-> RelocationOffset(r.offset, section_sizes, name),
          kind   |-> r.kind,
          addend |-> r.addend,
          target |-> [type |-> "Symbol", name |-> symbol.name, extra |-> 0]])]

RECURSIVE PushRelocations(_, _, _, _, _, _)
PushRelocations(elf, name, section_sizes, st, relocs, i) ==
  IF i > Len(relocs) \/ st.status # "ok" THEN st
  ELSE PushRelocations(elf, name, section_sizes,
                       PushRelocation(elf, name, section_sizes, st, relocs[i]),
                       relocs, i + 1)

\* (the data put in front of the content instead of behind it)
ExtendFront(content, data) == data \o content

\* out.content.extend(data)
Extend(content, data) == content \o data

\* One input section.  st = [status, sections]
MergeSection(elf, section_sizes, st, section) ==
  IF section.data = << >> THEN st
  ELSE IF IsExcluded(section.name) THEN st
  ELSE
    LET name == section.name
        out0 == Get(st.sections, name, DefaultOutputSection)
        out1 == [out0 EXCEPT !.name = name,
                             !.content = Extend(@, section.data)]
        r    == PushRelocations(elf, name, section_sizes,
                                [status |-> "ok", out |-> out1],
                                section.relocations, 1)
        out2 == [r.out EXCEPT !.is_executable = @ \/ section.exec]
    IN  [status |-> r.status, sections |-> Insert(st.sections, name, out2)]

RECURSIVE MergeSections(_, _, _, _)
MergeSections(elf, section_sizes, st, i) ==
  IF i > Len(elf.sections) \/ st.status # "ok" THEN st
  ELSE MergeSections(elf, section_sizes,
                     MergeSection(elf, section_sizes, st, elf.sections[i]),
                     i + 1)

\* (the symbol's value alone, the existing content forgotten)
SymbolOffsetNoBase(address, section_sizes, section_name) == address

\* offset: consider existing section content from other files
SymbolOffset(address, section_sizes, section_name) ==
  address + Get(section_sizes, section_name, 0)

\* symbols.insert(name, Symbol { .. })
InsertSymbol(table, name, sym) == Insert(table, name, sym)

\* One symbol of the object (the null symbol is not in elf.symbols).
\* st = [status, symbols]
DefineSymbol(elf, section_sizes, st, symbol) ==
  IF symbol.loc = "Undefined" \/ symbol.kind = "Section" THEN st
  ELSE IF symbol.loc # "Section"
  THEN [st EXCEPT !.status = "Panic"]          \* _ => unimplemented!()
  ELSE IF symbol.section_index \notin 1..Len(elf.sections)
  THEN [st EXCEPT !.status = "Err"]            \* elf.section_by_index(..)?
  ELSE
    LET section_name == elf.sections[symbol.section_index].name IN
    [st EXCEPT !.symbols = InsertSymbol(@, symbol.name,
       [section_name |-> section_name,
        offset |-> SymbolOffset(symbol.value, section_sizes, section_name)])]

RECURSIVE DefineSymbols(_, _, _, _)
DefineSymbols(elf, section_sizes, st, i) ==
  IF i > Len(elf.symbols) \/ st.status # "ok" THEN st
  ELSE DefineSymbols(elf, section_sizes,
                     DefineSymbol(elf, section_sizes, st, elf.symbols[i]),
                     i + 1)

\* The arm object::File::Elf64(elf) of one file
MergeObject(elf, sections, table) ==
  LET section_sizes == SectionSizes(sections)
      s == MergeSections(elf, section_sizes,
                         [status |-> "ok", sections |-> sections], 1)
      y == IF s.status = "ok"
           THEN DefineSymbols(elf, section_sizes,
                              [status |-> "ok", symbols |-> table], 1)
           ELSE [status |-> s.status, symbols |-> table]
  IN  [status |-> y.status, sections |-> s.sections, symbols |-> y.symbols]

\* object::File::parse(..)? followed by `match obj`: "Elf64", or "Err" for
\* what does not parse and for every other variant of object::File
ParseObject(content) ==
  IF content.class = "ELF64" THEN "Elf64" ELSE "Err"

\* object::read::archive::ArchiveFile::parse(..)?
ParseArchive(content) ==
  IF content.class = "AR" THEN "Archive" ELSE "Err"

IsArchiveName(file) == file.ext = "a"

ParseFile ==
  /\ pc = "parse"
  /\ parsed < Len(files)
  /\ LET file == files[parsed + 1] IN
     IF IsArchiveName(file)
     THEN IF ParseArchive(file.content) = "Err"
          THEN /\ Stop("Err")
               /\ UNCHANGED << parsed, output_sections, symbols >>
          ELSE /\ parsed' = parsed + 1
               /\ UNCHANGED << output_sections, symbols, pc, result >>
     ELSE IF ParseObject(file.content) = "Err"
          THEN /\ Stop("Err")
               /\ UNCHANGED << parsed, output_sections, symbols >>
          ELSE LET m == MergeObject(file.content, output_sections, symbols) IN
               IF m.status = "ok"
               THEN /\ output_sections' = m.sections
                    /\ symbols' = m.symbols
                    /\ parsed' = parsed + 1
                    /\ UNCHANGED << pc, result >>
               ELSE /\ Stop(m.status)
                    /\ UNCHANGED << parsed, output_sections, symbols >>
  /\ UNCHANGED optvars
  /\ UNCHANGED << obj_file, output, files, section_address, writer_len,
                  image, output_file >>

\* ------------------------------------------------------------------------
\* layout
\* ------------------------------------------------------------------------

AlignUp(x, a) == ((x + a - 1) \div a) * a

\* (the range starts where the last one ended, unaligned)
ReserveUnaligned(len, size, align) ==
  [offset |-> len, len |-> len + size]

\* writer.reserve(len, align): the aligned start of the range, and the
\* writer's reserved length after it
Reserve(len, size, align) ==
  [offset |-> AlignUp(len, align), len |-> AlignUp(len, align) + size]

\* for (_name, output_section) in &mut output_sections { offset = reserve }
\* and, in the same order, section_index = reserve_section_index()
RECURSIVE LayoutSections(_, _, _, _)
LayoutSections(keys, i, len, sections) ==
  IF i > Len(keys) THEN [len |-> len, sections |-> sections]
  ELSE
    LET name == keys[i]
        r    == Reserve(len, Len(sections[name].content), PageAlign)
    IN  LayoutSections(keys, i + 1, r.len,
          [sections EXCEPT ![name].offset = r.offset,
                           ![name].section_index = i])

\* The reserved lengths of the section headers, of the symbol table and of
\* the two string tables follow the section bodies and move no section;
\* writer_len stands for the reserved length up to the last section body.
Layout ==
  /\ pc = "parse"
  /\ parsed = Len(files)
  /\ LET l == LayoutSections(BTreeKeys(output_sections), 1,
                             FileHeaderLen + ProgramHeaderLen, output_sections)
     IN  /\ output_sections' = l.sections
         /\ writer_len' = l.len
         /\ section_address' =
              [n \in DOMAIN l.sections |-> l.sections[n].offset + load_address]
  /\ pc' = "relocate"
  /\ UNCHANGED optvars
  /\ UNCHANGED << obj_file, output, files, parsed, symbols, image,
                  output_file, result >>

\* ------------------------------------------------------------------------
\* relocation
\* ------------------------------------------------------------------------

\* (the four bytes, most significant first)
ToBeBytes(value) ==
  << (value \div 16777216) % 256,
     (value \div 65536) % 256,
     (value \div 256) % 256,
     value % 256 >>

\* (value as i32).to_le_bytes(): the four low-order bytes of the two's
\* complement of value, least significant first (\div rounds down, and %
\* is never negative)
ToLeBytes(value) ==
  << value % 256,
     (value \div 256) % 256,
     (value \div 65536) % 256,
     (value \div 16777216) % 256 >>

\* content[offset .. offset + 4].copy_from_slice(bytes)
CopyFromSlice(content, offset, bytes) ==
  [i \in 1..Len(content) |->
     IF i > offset /\ i <= offset + 4 THEN bytes[i - offset] ELSE content[i]]

\* The target virtual address of a relocation, or "Panic" as an index into
\* a map has no such key.  [status, address]
TargetAddress(relocation, table, addresses) ==
  IF relocation.target.type = "Section"
  THEN IF relocation.target.name \in DOMAIN addresses
       THEN [status |-> "ok",
             address |-> addresses[relocation.target.name] + relocation.target.extra]
       ELSE [status |-> "Panic", address |-> 0]
  ELSE IF relocation.target.name \notin DOMAIN table
       THEN [status |-> "Panic", address |-> 0]
       ELSE LET symbol == table[relocation.target.name] IN
            IF symbol.section_name \in DOMAIN addresses
            THEN [status |-> "ok",
                  address |-> addresses[symbol.section_name] + symbol.offset]
            ELSE [status |-> "Panic", address |-> 0]

\* The value stored for a relocation of the section at file offset `offset`
\* (the place P taken as the start of the section, without the offset of
\* the relocation)
RelocationValueSectionStart(relocation, target_address, offset) ==
  IF relocation.kind = "R32S"
  THEN target_address + relocation.addend
  ELSE target_address + relocation.addend - (load_address + offset)

RelocationValue(relocation, target_address, offset) ==
  IF relocation.kind = "R32S"
  THEN target_address + relocation.addend
  ELSE target_address + relocation.addend
         - (load_address + offset + relocation.offset)

\* One relocation of output_section.  st = [status, content]
ApplyRelocation(output_section, table, addresses, st, relocation) ==
  LET t == TargetAddress(relocation, table, addresses) IN
  IF t.status # "ok" THEN [st EXCEPT !.status = t.status]
  ELSE IF relocation.kind \notin {"R32S", "PLT32"}
  THEN [st EXCEPT !.status = "Panic"]          \* _ => unimplemented!(..)
  ELSE IF relocation.offset + 4 > Len(st.content)
  THEN [st EXCEPT !.status = "Panic"]          \* slice index out of range
  ELSE [st EXCEPT !.content =
          CopyFromSlice(@, relocation.offset,
            ToLeBytes(RelocationValue(relocation, t.address,
                                      output_section.offset)))]

RECURSIVE ApplyRelocations(_, _, _, _, _)
ApplyRelocations(output_section, table, addresses, st, i) ==
  IF i > Len(output_section.relocations) \/ st.status # "ok" THEN st
  ELSE ApplyRelocations(output_section, table, addresses,
         ApplyRelocation(output_section, table, addresses, st,
                         output_section.relocations[i]),
         i + 1)

\* for (name, output_section) in &mut output_sections.  st = [status, sections]
RECURSIVE RelocateSections(_, _, _, _, _)
RelocateSections(keys, i, table, addresses, st) ==
  IF i > Len(keys) \/ st.status # "ok" THEN st
  ELSE
    LET name == keys[i]
        r == ApplyRelocations(st.sections[name], table, addresses,
               [status |-> "ok", content |-> st.sections[name].content], 1)
    IN  RelocateSections(keys, i + 1, table, addresses,
          [status |-> r.status,
           sections |-> [st.sections EXCEPT ![name].content = r.content]])

Relocate ==
  /\ pc = "relocate"
  /\ LET r == RelocateSections(BTreeKeys(output_sections), 1, symbols,
                section_address, [status |-> "ok", sections |-> output_sections])
     IN  IF r.status = "ok"
         THEN /\ output_sections' = r.sections
              /\ pc' = "write"
              /\ UNCHANGED result
         ELSE /\ Stop(r.status)
              /\ UNCHANGED output_sections
  /\ UNCHANGED optvars
  /\ UNCHANGED << obj_file, output, files, parsed, symbols, section_address,
                  writer_len, image, output_file >>

\* ------------------------------------------------------------------------
\* write
\* ------------------------------------------------------------------------

\* (a symbol or section that is missing counts as address 0)
SymbolAddressOrZero(table, addresses, name) ==
  IF name \notin DOMAIN table THEN [status |-> "ok", address |-> 0]
  ELSE IF table[name].section_name \notin DOMAIN addresses
  THEN [status |-> "ok", address |-> 0]
  ELSE [status |-> "ok",
        address |-> addresses[table[name].section_name] + table[name].offset]

\* The address of a symbol, or "Panic" as an index into a map has no such
\* key.  [status, address]
SymbolAddress(table, addresses, name) ==
  IF name \notin DOMAIN table THEN [status |-> "Panic", address |-> 0]
  ELSE IF table[name].section_name \notin DOMAIN addresses
  THEN [status |-> "Panic", address |-> 0]
  ELSE [status |-> "ok",
        address |-> addresses[table[name].section_name] + table[name].offset]

\* (the start of the section of _start, its offset forgotten)
EntryAddressOfSection(table, addresses) ==
  IF SymbolAddress(table, addresses, "_start").status # "ok"
  THEN SymbolAddress(table, addresses, "_start")
  ELSE [status |-> "ok", address |-> addresses[table["_start"].section_name]]

\* let entry_address = ..
EntryAddress(table, addresses) == SymbolAddress(table, addresses, "_start")

\* writer.pad_until(output_section.offset); writer.write(&content)
SectionBodies(sections) ==
  LET keys == BTreeKeys(sections) IN
  [i \in 1..Len(keys) |->
     [offset |-> sections[keys[i]].offset, content |-> sections[keys[i]].content]]

\* writer.write_section_header(..) of every output section
SectionHeaders(sections, addresses) ==
  LET keys == BTreeKeys(sections) IN
  [i \in 1..Len(keys) |->
     [name      |-> keys[i],
      execinstr |-> sections[keys[i]].is_executable,
      sh_addr   |-> addresses[keys[i]],
      sh_offset |-> sections[keys[i]].offset,
      sh_size   |-> Len(sections[keys[i]].content)]]

\* writer.write_symbol(..) of every symbol (all of them resolve)
SymbolTable(table, sections, addresses) ==
  LET keys == BTreeKeys(table) IN
  [i \in 1..Len(keys) |->
     [name     |-> keys[i],
      section  |-> sections[table[keys[i]].section_name].section_index,
      st_value |-> SymbolAddress(table, addresses, keys[i]).address]]

\* std::fs::write(output, buffer) fails or not, as the file system decides
WriteImage ==
  /\ pc = "write"
  /\ IF EntryAddress(symbols, section_address).status # "ok"
     THEN /\ Stop("Panic")                     \* &symbols["_start"]
          /\ UNCHANGED << image, output_file >>
     ELSE IF \E n \in DOMAIN symbols :
               SymbolAddress(symbols, section_address, n).status # "ok"
     THEN /\ Stop("Panic")                     \* section_address[&symbol.section_name]
          /\ UNCHANGED << image, output_file >>
     ELSE
       /\ image' =
            [e_entry         |-> EntryAddress(symbols, section_address).address,
             bodies          |-> SectionBodies(output_sections),
             section_headers |-> SectionHeaders(output_sections, section_address),
             symtab          |-> SymbolTable(symbols, output_sections, section_address)]
       /\ IF output = "None"
          THEN /\ Stop("Panic")                \* opt.output.as_ref().unwrap()
               /\ UNCHANGED output_file
          ELSE \E written \in BOOLEAN :
                 IF written
                 THEN /\ output_file' = [written |-> TRUE, image |-> image']
                      /\ Stop("Ok")
                 ELSE /\ Stop("Err")           \* std::fs::write(..)?
                      /\ UNCHANGED output_file
  /\ UNCHANGED optvars
  /\ UNCHANGED << obj_file, output, files, parsed, output_sections, symbols,
                  section_address, writer_len >>

\* ------------------------------------------------------------------------
\* Specification
\* ------------------------------------------------------------------------

Next ==
  \/ PathResolution
  \/ ReadFiles
  \/ ParseFile
  \/ Layout
  \/ Relocate
  \/ WriteImage

Spec == Init /\ [][Next]_vars

\* ---------------------------------------------------------------------
\* parse_opts (opt.rs): the arguments are matched one by one; an option
\* that takes a value takes the next argument from the iterator.

MaxArgs == 5

MaxOtherArgs == 3

\* The arguments of the model.  Those of the first set make and change the
\* state recorded with the entries; an argument list is either made of them
\* alone (up to MaxArgs of them) or holds one argument of the second set
\* (and is up to MaxOtherArgs long).
StateArgs ==
  { "-la", "x.o", "-static", "--as-needed", "--push-state", "--pop-state" }

OtherArgs == { "-o", "-z", "-pie", "--start-group", "--no-as-needed" }

ArgLists ==
  UNION { [1..n -> StateArgs] : n \in 0..MaxArgs }
    \cup UNION { { a \in [1..n -> StateArgs \cup OtherArgs] :
                     Cardinality({ i \in 1..n : a[i] \in OtherArgs }) = 1 }
                 : n \in 1..MaxOtherArgs }

\* s.starts_with("-l"), and s.strip_prefix("-l").unwrap()
StartsWithDashL(s) == s \in { "-la" }

StripPrefix(s) == IF s = "-la" THEN "a" ELSE s

\* s.starts_with('-')
StartsWithDash(s) == s # "x.o"

\* -dynamic-linker, -m, -o, -soname: Some(iter.next().ok_or(..)?)
ValueOptions == { "-dynamic-linker", "-m", "-o", "-soname" }

\* -plugin, -z: iter.next()
SkipOptions == { "-plugin", "-z" }

\* options that set a field of opt which is no entry (of the arms of this
\* shape, -L.., -plugin-opt=.. and --hash-style=.. are not among the
\* arguments of the model)
PlainOptions == { "-pie", "-shared", "--build-id", "--eh-frame-hdr" }

GroupOptions == { "--start-group", "--end-group" }

KnownOptions ==
  ValueOptions \cup SkipOptions \cup PlainOptions \cup GroupOptions
    \cup { "-static", "--as-needed", "--pop-state", "--push-state" }

LibraryOpt(name, as_needed, link_static) ==
  [type |-> "Library", name |-> name, as_needed |-> as_needed,
   link_static |-> link_static]

FileOpt(name, as_needed) ==
  [type |-> "File", name |-> name, as_needed |-> as_needed]

GroupOpt(arg) ==
  [type |-> IF arg = "--start-group" THEN "StartGroup" ELSE "EndGroup"]

OptInit ==
  /\ args \in ArgLists
  /\ iter = 0
  /\ opt = [output |-> << >>, obj_file |-> << >>]
  /\ cur_opt_stack = [as_needed |-> FALSE, link_static |-> FALSE]
  /\ opt_stack = << >>
  /\ pc = "parse_opts"
  /\ result = "Running"
  /\ obj_file = << >>
  /\ output = "None"
  /\ files = << >>
  /\ parsed = 0
  /\ output_sections = EmptyMap
  /\ symbols = EmptyMap
  /\ section_address = EmptyMap
  /\ writer_len = 0
  /\ image = NoImage
  /\ output_file = [written |-> FALSE, image |-> NoImage]

\* while let Some(arg) = iter.next()
Taking(arg) ==
  /\ pc = "parse_opts"
  /\ iter < Len(args)
  /\ arg = args[iter + 1]

\* the next loop iteration
Continue == UNCHANGED << pc, result >>

ValueOption ==
  \E arg \in ValueOptions :
    /\ Taking(arg)
    /\ IF iter + 1 < Len(args)
       THEN /\ iter' = iter + 2
            /\ opt' = IF arg = "-o"
                      THEN [opt EXCEPT !.output = << args[iter + 2] >>]
                      ELSE opt
            /\ Continue
       ELSE /\ iter' = iter + 1                \* .ok_or(anyhow!(..))?
            /\ Stop("Err")
            /\ UNCHANGED opt
    /\ UNCHANGED << args, cur_opt_stack, opt_stack >>
    /\ UNCHANGED linkvars

Library ==
  \E arg \in { s \in StateArgs \cup OtherArgs : StartsWithDashL(s) } :
    /\ Taking(arg)
    /\ iter' = iter + 1
    /\ opt' = [opt EXCEPT !.obj_file =
                 Append(@, LibraryOpt(StripPrefix(arg), cur_opt_stack.as_needed,
                                      cur_opt_stack.link_static))]
    /\ Continue
    /\ UNCHANGED << args, cur_opt_stack, opt_stack >>
    /\ UNCHANGED linkvars

SkipOption ==
  \E arg \in SkipOptions :
    /\ Taking(arg)
    /\ iter' = IF iter + 1 < Len(args) THEN iter + 2 ELSE iter + 1
    /\ Continue
    /\ UNCHANGED << args, opt, cur_opt_stack, opt_stack >>
    /\ UNCHANGED linkvars

PlainOption ==
  \E arg \in PlainOptions :
    /\ Taking(arg)
    /\ iter' = iter + 1
    /\ Continue
    /\ UNCHANGED << args, opt, cur_opt_stack, opt_stack >>
    /\ UNCHANGED linkvars

Static ==
  /\ Taking("-static")
  /\ iter' = iter + 1
  /\ cur_opt_stack' = [cur_opt_stack EXCEPT !.link_static = TRUE]
  /\ Continue
  /\ UNCHANGED << args, opt, opt_stack >>
  /\ UNCHANGED linkvars

AsNeeded ==
  /\ Taking("--as-needed")
  /\ iter' = iter + 1
  /\ cur_opt_stack' = [cur_opt_stack EXCEPT !.as_needed = TRUE]
  /\ Continue
  /\ UNCHANGED << args, opt, opt_stack >>
  /\ UNCHANGED linkvars

Group ==
  \E arg \in GroupOptions :
    /\ Taking(arg)
    /\ iter' = iter + 1
    /\ opt' = [opt EXCEPT !.obj_file = Append(@, GroupOpt(arg))]
    /\ Continue
    /\ UNCHANGED << args, cur_opt_stack, opt_stack >>
    /\ UNCHANGED linkvars

\* (the state saved first)
PopFirst(stack) == stack[1]

\* opt_stack.pop().unwrap(): the state saved last
Pop(stack) == stack[Len(stack)]

PopState ==
  /\ Taking("--pop-state")
  /\ iter' = iter + 1
  /\ IF opt_stack = << >>
     THEN /\ Stop("Panic")                     \* unwrap() of None
          /\ UNCHANGED << cur_opt_stack, opt_stack >>
     ELSE /\ cur_opt_stack' = Pop(opt_stack)
          /\ opt_stack' = SubSeq(opt_stack, 1, Len(opt_stack) - 1)
          /\ Continue
  /\ UNCHANGED << args, opt >>
  /\ UNCHANGED linkvars

PushState ==
  /\ Taking("--push-state")
  /\ iter' = iter + 1
  /\ opt_stack' = Append(opt_stack, cur_opt_stack)
  /\ Continue
  /\ UNCHANGED << args, opt, cur_opt_stack >>
  /\ UNCHANGED linkvars

UnknownArgument ==
  \E arg \in (StateArgs \cup OtherArgs) \ KnownOptions :
    /\ Taking(arg)
    /\ ~StartsWithDashL(arg)
    /\ StartsWithDash(arg)
    /\ iter' = iter + 1
    /\ Stop("Err")                             \* return Err(anyhow!(..))
    /\ UNCHANGED << args, opt, cur_opt_stack, opt_stack >>
    /\ UNCHANGED linkvars

ObjectFileArg ==
  \E arg \in (StateArgs \cup OtherArgs) \ KnownOptions :
    /\ Taking(arg)
    /\ ~StartsWithDashL(arg)
    /\ ~StartsWithDash(arg)
    /\ iter' = iter + 1
    /\ opt' = [opt EXCEPT !.obj_file =
                 Append(@, FileOpt(arg, cur_opt_stack.as_needed))]
    /\ Continue
    /\ UNCHANGED << args, cur_opt_stack, opt_stack >>
    /\ UNCHANGED linkvars

\* Ok(opt)
ParseDone ==
  /\ pc = "parse_opts"
  /\ iter = Len(args)
  /\ Stop("Ok")
  /\ UNCHANGED optvars
  /\ UNCHANGED linkvars

OptNext ==
  \/ ValueOption
  \/ Library
  \/ SkipOption
  \/ PlainOption
  \/ Static
  \/ AsNeeded
  \/ Group
  \/ PopState
  \/ PushState
  \/ UnknownArgument
  \/ ObjectFileArg
  \/ ParseDone

OptSpec == OptInit /\ [][OptNext]_vars

\* ------------------------------------------------------------------------
\* Properties
\* ------------------------------------------------------------------------

\* The objects merged so far are files[1..parsed] but the archives.
IsObject(i) == files[i].ext # "a"

\* The section names the specification keeps out of the output
SpecExcluded(n) == n \in {"", ".symtab", ".strtab", ".shstrtab", ".rela.text"}

\* Input section j of file i is merged into output section n
Contributes(i, j, n) ==
  /\ IsObject(i)
  /\ files[i].content.sections[j].name = n
  /\ files[i].content.sections[j].data # << >>
  /\ ~SpecExcluded(n)

\* The data file i contributes to section n from its sections j, j+1, ..
RECURSIVE ObjectData(_, _, _)
ObjectData(i, j, n) ==
  IF j > Len(files[i].content.sections) THEN << >>
  ELSE (IF Contributes(i, j, n) THEN files[i].content.sections[j].data ELSE << >>)
         \o ObjectData(i, j + 1, n)

\* The data files i, i+1, .., k contribute to section n
RECURSIVE MergedData(_, _, _)
MergedData(i, k, n) ==
  IF i > k THEN << >>
  ELSE ObjectData(i, 1, n) \o MergedData(i + 1, k, n)

RECURSIVE SumOfSizes(_, _, _, _)
SumOfSizes(i, j, k, n) ==
  IF i > k THEN 0
  ELSE IF j > Len(files[i].content.sections) THEN SumOfSizes(i + 1, 1, k, n)
  ELSE (IF Contributes(i, j, n) THEN Len(files[i].content.sections[j].data) ELSE 0)
         + SumOfSizes(i, j + 1, k, n)

\* The merge loop stands between two files, or has ended and the sections
\* are not patched yet
Merging == pc = "parse" \/ pc = "relocate"

\* C1: after merging any sequence of input objects, every output section
\* holds exactly the concatenation of the data of the non-excluded,
\* non-empty input sections of its name, in input-file order and section
\* order within each object; its length is the sum of their sizes; and
\* there is an output section for exactly the names with such a section.
C1_MergedContent ==
  Merging =>
    \A n \in SectionNames :
      /\ (n \in DOMAIN output_sections) <=>
           (\E i \in 1..parsed : \E j \in 1..Len(files[i].content.sections) :
              Contributes(i, j, n))
      /\ (n \in DOMAIN output_sections) =>
           /\ output_sections[n].content = MergedData(1, parsed, n)
           /\ Len(output_sections[n].content) = SumOfSizes(1, 1, parsed, n)

\* Two objects have been merged, a 32-byte .text then a 16-byte .text, next
\* to an empty and to an excluded section.
C1_Witness ==
  /\ pc = "relocate"
  /\ parsed = 2
  /\ IsObject(1) /\ IsObject(2)
  /\ Len(files[1].content.sections[1].data) = 32
  /\ Len(files[2].content.sections) = 2
  /\ files[2].content.sections[2].name = ".symtab"
  /\ Len(output_sections[".text"].content) = 48

SymbolNames == {"_start", "bar", "data", "foo"}

\* Symbol j of file i is a definition: not undefined, not of kind Section
\* (the null symbol is not in the list)
Defines(i, j) ==
  /\ IsObject(i)
  /\ files[i].content.symbols[j].loc # "Undefined"
  /\ files[i].content.symbols[j].kind # "Section"

\* The definitions of `name` in files 1..k, as (file, symbol) positions
Definitions(name, k) ==
  UNION { { << i, j >> : j \in { x \in 1..Len(files[i].content.symbols) :
                                    /\ Defines(i, x)
                                    /\ files[i].content.symbols[x].name = name } } :
          i \in 1..k }

\* The one inserted last, in input order
LastOf(D) ==
  CHOOSE d \in D :
    \A e \in D : e[1] < d[1] \/ (e[1] = d[1] /\ e[2] <= d[2])

\* The section that defines symbol j of file i
DefiningSection(i, j) ==
  files[i].content.sections[files[i].content.symbols[j].section_index].name

\* The size output section n had before file i was processed
SizeBefore(i, n) == SumOfSizes(1, 1, i - 1, n)

ObjectA ==
  [ext |-> "o",
   content |-> Elf64Rel(PlainSections(<< Shape(".text", 32) >>), << StartSymbol >>)]

ObjectB ==
  [ext |-> "o",
   content |-> Elf64Rel(PlainSections(<< Shape(".text", 16) >>), << FooSymbol >>)]

\* C2: after merging, the symbol table maps each name defined by some input
\* object to the definition inserted last in input order, with offset = the
\* symbol's value + the size the output section of its defining section had
\* before that object was processed (0 if there was none); and names no
\* object defines are not in the table.  With A.text of 32 bytes defining
\* _start at 0 and B.text of 16 bytes defining foo at 0, _start resolves to
\* 0x401000 and foo to 0x401020.
C2_SymbolTable ==
  /\ \A name \in SymbolNames :
       LET D == Definitions(name, parsed) IN
       /\ (name \in DOMAIN symbols) <=> (D # {})
       /\ (D # {}) =>
            LET d == LastOf(D) IN
            /\ symbols[name].section_name = DefiningSection(d[1], d[2])
            /\ symbols[name].offset =
                 files[d[1]].content.symbols[d[2]].value
                   + SizeBefore(d[1], DefiningSection(d[1], d[2]))
  /\ (files = << ObjectA, ObjectB >> /\ pc = "relocate") =>
       /\ section_address[symbols["_start"].section_name]
            + symbols["_start"].offset = 4198400
       /\ section_address[symbols["foo"].section_name]
            + symbols["foo"].offset = 4198432

\* A and B have been merged and laid out; foo lies behind A's 32 bytes.
C2_Witness ==
  /\ files = << ObjectA, ObjectB >>
  /\ pc = "relocate"
  /\ symbols["foo"].offset = 32
  /\ symbols["_start"].offset = 0

\* A name defined by both files: the second definition has replaced the first.
C2_WitnessOverwrite ==
  /\ parsed = 2
  /\ Cardinality(Definitions("_start", 2)) = 2
  /\ symbols["_start"].offset = 24

\* All files have been merged (and the link has not failed before that)
MergeDone ==
  \/ pc = "parse" /\ parsed = Len(files)
  \/ pc \in {"relocate", "write"}
  \/ pc = "end" /\ writer_len > 0

\* Layout has run
LaidOut ==
  \/ pc \in {"relocate", "write"}
  \/ pc = "end" /\ writer_len > 0

\* C3: after merge, every symbol of the symbol table names an output section
\* that exists, and its offset is at most the length of that section's
\* content -- also for symbols defined in empty or excluded input sections.
C3_SymbolsInSections ==
  MergeDone =>
    \A name \in DOMAIN symbols :
      /\ symbols[name].section_name \in DOMAIN output_sections
      /\ symbols[name].offset
           <= Len(output_sections[symbols[name].section_name].content)

\* Every relocation of the objects merged so far lies within its own input
\* section
InputRelocationsInside ==
  \A i \in 1..parsed : \A j \in 1..Len(files[i].content.sections) :
    LET section == files[i].content.sections[j] IN
    \A x \in 1..Len(section.relocations) :
      section.relocations[x].offset + 4 <= Len(section.data)

\* C4: given that each input relocation lies within its own input section,
\* every relocation recorded in an output section s has
\* offset + 4 <= length of s.content once merging is complete: the four
\* bytes the relocation engine overwrites lie inside s.content.
C4_RelocationsInside ==
  (MergeDone /\ InputRelocationsInside) =>
    \A n \in DOMAIN output_sections :
      \A x \in 1..Len(output_sections[n].relocations) :
        /\ output_sections[n].relocations[x].offset >= 0
        /\ output_sections[n].relocations[x].offset + 4
             <= Len(output_sections[n].content)

\* A relocation at input offset 12 of a 16-byte .text that follows 16 bytes
\* of an earlier object: rebased to 28, its range ends with the content.
C4_Witness ==
  /\ MergeDone
  /\ InputRelocationsInside
  /\ ".text" \in DOMAIN output_sections
  /\ Len(output_sections[".text"].content) = 32
  /\ \E x \in 1..Len(output_sections[".text"].relocations) :
       output_sections[".text"].relocations[x].offset = 28

\* C5: after layout, every output section has
\* virtual_address = 0x400000 + file_offset with file_offset a multiple of
\* 4096; the file ranges [file_offset, file_offset + length) of two distinct
\* output sections are disjoint, and disjoint from the file header and the
\* program header at the start of the file.
C5_Layout ==
  LaidOut =>
    /\ DOMAIN section_address = DOMAIN output_sections
    /\ \A n \in DOMAIN output_sections :
         /\ section_address[n] = 4194304 + output_sections[n].offset
         /\ output_sections[n].offset % 4096 = 0
         /\ output_sections[n].offset >= 64 + 56
    /\ \A a, b \in DOMAIN output_sections :
         (a # b) =>
           \/ output_sections[a].offset + Len(output_sections[a].content)
                <= output_sections[b].offset
           \/ output_sections[b].offset + Len(output_sections[b].content)
                <= output_sections[a].offset

\* Two output sections laid out: .data in the second page of the file and
\* .text, 48 bytes long, in the third.
C5_Witness ==
  /\ LaidOut
  /\ DOMAIN output_sections = {".data", ".text"}
  /\ output_sections[".data"].offset = 4096
  /\ output_sections[".text"].offset = 8192
  /\ Len(output_sections[".text"].content) = 48

SingleObject == [ext |-> "o", content |-> SimpleBody]

\* C6: on every successful link the entry point written in the file header
\* is virtual_address[section of _start] + offset of _start; a single object
\* with a 16-byte .text and _start at offset 0 has .text at file offset
\* 0x1000 and the entry point 0x401000.
C6_EntryPoint ==
  (result = "Ok") =>
    /\ output_file.written
    /\ "_start" \in DOMAIN symbols
    /\ output_file.image.e_entry =
         section_address[symbols["_start"].section_name] + symbols["_start"].offset
    /\ (files = << SingleObject >>) =>
         /\ output_file.image.e_entry = 4198400
         /\ output_file.image.bodies =
              << [offset |-> 4096, content |-> SingleObject.content.sections[1].data] >>
         /\ output_file.image.section_headers[1].sh_offset = 4096

\* The single object has been linked.
C6_Witness ==
  /\ result = "Ok"
  /\ files = << SingleObject >>
  /\ output_file.image.e_entry = 4198400

\* A link has succeeded with _start at offset 8 of .data.
C6_WitnessOffset ==
  /\ result = "Ok"
  /\ symbols["_start"].offset = 8
  /\ output_file.image.e_entry = 4198408

MissingStart == "_start" \notin DOMAIN symbols

\* Some recorded relocation targets a symbol that is not in the symbol table
MissingTarget ==
  \E n \in DOMAIN output_sections :
    \E x \in 1..Len(output_sections[n].relocations) :
      /\ output_sections[n].relocations[x].target.type = "Symbol"
      /\ output_sections[n].relocations[x].target.name \notin DOMAIN symbols

\* C7: if, after merging all inputs, the symbol table has no _start, or a
\* relocation targets a symbol name that is not in the symbol table, the
\* link never reports success and the output file is not written.
C7_Rejected ==
  (MergeDone /\ (MissingStart \/ MissingTarget)) =>
    /\ result # "Ok"
    /\ ~output_file.written

\* A link without _start has ended, with nothing written.
C7_Witness ==
  /\ pc = "end"
  /\ MergeDone
  /\ MissingStart
  /\ ~MissingTarget
  /\ result # "Ok"

\* A link with _start and with a relocation against the undefined `bar` has
\* ended, with nothing written.
C7_WitnessTarget ==
  /\ pc = "end"
  /\ MergeDone
  /\ ~MissingStart
  /\ MissingTarget
  /\ result # "Ok"

\* C8: every fatal condition of the link ends with link returning an error
\* value to its caller, and in no other way (no panic inside the pipeline).
C8_ErrorValue ==
  (pc = "end" /\ result # "Ok") => (result = "Err")

\* C9: the output depends on the names only: output sections are laid out
\* (file offset, section index, body and section header in the file) and
\* symbols are emitted in the lexicographic order of their names, whatever
\* the order in which the inputs brought them.
C9_NameOrder ==
  /\ LaidOut =>
       \A a, b \in DOMAIN output_sections :
         (Rank(a) < Rank(b)) =>
           /\ output_sections[a].offset < output_sections[b].offset
           /\ output_sections[a].section_index < output_sections[b].section_index
  /\ output_file.written =>
       LET f == output_file.image IN
       /\ { f.symtab[i].name : i \in 1..Len(f.symtab) } = DOMAIN symbols
       /\ { f.section_headers[i].name : i \in 1..Len(f.section_headers) }
            = DOMAIN output_sections
       /\ \A i, j \in 1..Len(f.symtab) :
            (i < j) => (Rank(f.symtab[i].name) < Rank(f.symtab[j].name))
       /\ \A i, j \in 1..Len(f.section_headers) :
            (i < j) =>
              /\ Rank(f.section_headers[i].name) < Rank(f.section_headers[j].name)
              /\ f.bodies[i].offset < f.bodies[j].offset
              /\ f.bodies[i].offset = f.section_headers[i].sh_offset

\* The inputs bring foo before _start and .text before .data; the file
\* written has _start before foo and .data before .text.
C9_Witness ==
  /\ result = "Ok"
  /\ Len(files) = 2
  /\ files[1] = ObjectB
  /\ Len(files[2].content.sections) = 2
  /\ files[2].content.sections[2].name = ".data"
  /\ output_file.image.symtab[1].name = "_start"
  /\ output_file.image.symtab[2].name = "foo"
  /\ output_file.image.section_headers[1].name = ".data"
  /\ output_file.image.section_headers[2].name = ".text"

\* C10: an input file (not named *.a) that is not a 64-bit little-endian
\* relocatable object is rejected: the parse loop never goes past it, so it
\* contributes no sections and no symbols.
C10_OnlyElf64LeRel ==
  \A i \in 1..parsed :
    IsObject(i) =>
      /\ files[i].content.class = "ELF64"
      /\ files[i].content.endian = "LSB"
      /\ files[i].content.e_type = "REL"

\* The relocations have been applied
Relocated == pc = "write" \/ result = "Ok"

\* The target address T of a recorded relocation: of a section target,
\* virtual_address[name] + extra; of a symbol target, the address of the
\* symbol
TargetOf(r) ==
  IF r.target.type = "Section"
  THEN section_address[r.target.name] + r.target.extra
  ELSE section_address[symbols[r.target.name].section_name]
         + symbols[r.target.name].offset

\* The 32-bit little-endian signed integer at content[o .. o + 4]
Le32At(content, o) ==
  content[o + 1] + 256 * content[o + 2] + 65536 * content[o + 3]
    + 16777216 * (IF content[o + 4] >= 128 THEN content[o + 4] - 256
                  ELSE content[o + 4])

\* Relocation x of output section n is the last one to write its four bytes
NotOverwritten(n, x) ==
  \A y \in (x + 1)..Len(output_sections[n].relocations) :
    \/ output_sections[n].relocations[y].offset + 4
         <= output_sections[n].relocations[x].offset
    \/ output_sections[n].relocations[x].offset + 4
         <= output_sections[n].relocations[y].offset

DataFile == [ext |-> "o", content |-> DataObject]

NegativeFile == [ext |-> "o", content |-> NegativeObject]

C11_WitnessNegative ==
  /\ Relocated
  /\ files = << NegativeFile >>
  /\ Le32At(output_sections[".text"].content, 4) = 4202496 - 8388608
  /\ output_sections[".text"].content[8] = 255

\* C12: for an R_X86_64_PLT32 relocation at output offset o of section s
\* with target address T, after relocation the four bytes s.content[o..o+4]
\* hold T + addend - P as a 32-bit little-endian integer, where
\* P = 0x400000 + s.file_offset + o is the address of the patched place; a
\* slot at .text offset 1 with addend -4 whose target _start lies at .text
\* offset 0 holds -5.
C12_Relative32 ==
  Relocated =>
    \A n \in DOMAIN output_sections :
      \A x \in 1..Len(output_sections[n].relocations) :
        LET r == output_sections[n].relocations[x] IN
        (r.kind = "PLT32" /\ NotOverwritten(n, x)) =>
          /\ \A i \in 1..4 : output_sections[n].content[r.offset + i] \in 0..255
          /\ Le32At(output_sections[n].content, r.offset)
               = TargetOf(r) + r.addend
                   - (4194304 + output_sections[n].offset + r.offset)
          /\ ( /\ n = ".text" /\ r.offset = 1 /\ r.addend = -4
               /\ r.target = [type |-> "Symbol", name |-> "_start", extra |-> 0]
               /\ symbols["_start"] = [section_name |-> ".text", offset |-> 0] )
             => SubSeq(output_sections[n].content, 2, 5) = << 251, 255, 255, 255 >>

\* The call slot at .text offset 1 against _start at .text offset 0 has been
\* patched with -5.
C12_Witness ==
  /\ Relocated
  /\ ".text" \in DOMAIN output_sections
  /\ "_start" \in DOMAIN symbols
  /\ symbols["_start"] = [section_name |-> ".text", offset |-> 0]
  /\ \E x \in 1..Len(output_sections[".text"].relocations) :
       LET r == output_sections[".text"].relocations[x] IN
       /\ r.kind = "PLT32" /\ r.offset = 1 /\ r.addend = -4
       /\ r.target.name = "_start"
  /\ Le32At(output_sections[".text"].content, 1) = -5

\* A call slot that does not lie at the start of its section: the object
\* with the slot is the second to contribute to .text.
C12_WitnessRebased ==
  /\ Relocated
  /\ ".text" \in DOMAIN output_sections
  /\ \E x \in 1..Len(output_sections[".text"].relocations) :
       LET r == output_sections[".text"].relocations[x] IN
       /\ r.kind = "PLT32" /\ r.offset = 17
       /\ Le32At(output_sections[".text"].content, 17)
            = TargetOf(r) - 4 - (section_address[".text"] + 17)

\* The relocations of the files merged so far that belong to output section
\* n: << i, j, k >> is relocation k of section j of file i
RelocTriples(n) ==
  UNION { UNION { { << i, j, k >> :
                      k \in 1..Len(files[i].content.sections[j].relocations) }
                  : j \in { jj \in 1..Len(files[i].content.sections) :
                              Contributes(i, jj, n) } }
          : i \in { ii \in 1..parsed : IsObject(ii) } }

\* Input order of relocations
Before(u, t) ==
  \/ u[1] < t[1]
  \/ u[1] = t[1] /\ u[2] < t[2]
  \/ u[1] = t[1] /\ u[2] = t[2] /\ u[3] < t[3]

\* The place of input relocation t in the relocation list of section n
Position(t, n) == Cardinality({ u \in RelocTriples(n) : Before(u, t) }) + 1

InputRelocation(t) == files[t[1]].content.sections[t[2]].relocations[t[3]]

\* Input relocation t targets a section symbol
TargetsSection(t) ==
  /\ InputRelocation(t).symbol \in 1..Len(files[t[1]].content.symbols)
  /\ files[t[1]].content.symbols[InputRelocation(t).symbol].kind = "Section"

\* The name of the section that the section symbol targeted by t stands for
TargetSectionName(t) ==
  files[t[1]].content.sections[
    files[t[1]].content.symbols[InputRelocation(t).symbol].section_index].name

\* The merge loop stands between two files or has ended without failure
Merged == (pc = "parse" /\ result = "Running") \/ MergeDone

\* C14: a relocation whose input target is a section symbol is recorded as
\* a section target (name of the section the symbol stands for, extra) with
\* extra = the size the target output section had before the referencing
\* object was processed (0 if there was none), not counting the bytes of the
\* referencing object or of later ones; and it resolves to
\* T = virtual_address[section name] + extra.
C14_SectionTarget ==
  /\ Merged =>
       \A n \in DOMAIN output_sections :
         /\ Len(output_sections[n].relocations) = Cardinality(RelocTriples(n))
         /\ \A t \in RelocTriples(n) :
              TargetsSection(t) =>
                output_sections[n].relocations[Position(t, n)].target
                  = [type  |-> "Section",
                     name  |-> TargetSectionName(t),
                     extra |-> SizeBefore(t[1], TargetSectionName(t))]
  /\ Relocated =>
       \A n \in DOMAIN output_sections :
         \A t \in RelocTriples(n) :
           ( /\ TargetsSection(t)
             /\ InputRelocation(t).kind = "R32S"
             /\ NotOverwritten(n, Position(t, n)) ) =>
             Le32At(output_sections[n].content,
                    output_sections[n].relocations[Position(t, n)].offset)
               = section_address[TargetSectionName(t)]
                   + SizeBefore(t[1], TargetSectionName(t))
                   + InputRelocation(t).addend

\* The second of two objects refers to its own .data through the section
\* symbol; the first object has put 16 bytes into .data, the second adds 16
\* more: the extra recorded is 16 and the slot holds 0x401010.
C14_Witness ==
  /\ Relocated
  /\ parsed = 2
  /\ ".data" \in DOMAIN output_sections
  /\ Len(output_sections[".data"].content) = 32
  /\ SizeBefore(2, ".data") = 16
  /\ \E t \in RelocTriples(".text") :
       /\ t[1] = 2
       /\ TargetsSection(t)
       /\ TargetSectionName(t) = ".data"
       /\ output_sections[".text"].relocations[Position(t, ".text")].target.extra = 16
       /\ Le32At(output_sections[".text"].content,
                 output_sections[".text"].relocations[Position(t, ".text")].offset)
            = 4198416

\* The bytes sections 1 .. j-1 of file i contribute to output section n
RECURSIVE OwnBefore(_, _, _)
OwnBefore(i, j, n) ==
  IF j <= 1 THEN 0
  ELSE (IF Contributes(i, j - 1, n)
        THEN Len(files[i].content.sections[j - 1].data) ELSE 0)
         + OwnBefore(i, j - 1, n)

\* Where the data of section j of file i starts in output section n
ContributionStart(i, j, n) == SizeBefore(i, n) + OwnBefore(i, j, n)

\* C15: every relocation is recorded, and so patched, at the start of the
\* data of the input section that carried it + its input offset, so that
\* the four bytes to patch are bytes of that very input section (until the
\* relocation loop they still hold its data) -- also when one object
\* contributes more than one section of the same name.
C15_PatchesOwnBytes ==
  Merged =>
    \A n \in DOMAIN output_sections :
      \A t \in RelocTriples(n) :
        LET o == output_sections[n].relocations[Position(t, n)].offset IN
        /\ o = ContributionStart(t[1], t[2], n) + InputRelocation(t).offset
        /\ \A i \in 1..4 :
             ( /\ Merging
               /\ InputRelocation(t).offset + i
                    <= Len(files[t[1]].content.sections[t[2]].data) )
             => output_sections[n].content[o + i]
                  = files[t[1]].content.sections[t[2]].data[InputRelocation(t).offset + i]

\* Argument p is matched as an option or a file, not taken as the value of
\* the option before it
RECURSIVE IsMatched(_)
IsMatched(p) ==
  \/ p = 1
  \/ ~( IsMatched(p - 1) /\ args[p - 1] \in ValueOptions \cup SkipOptions )

\* The matched arguments among the first k that read a
Matched(a, k) == { q \in 1..k : IsMatched(q) /\ args[q] = a }

\* The number of states saved and not yet restored after argument k
Depth(k) ==
  Cardinality(Matched("--push-state", k)) - Cardinality(Matched("--pop-state", k))

\* Flag a (--as-needed or -static) is in effect at position p: it was given
\* at some q before p, and no --pop-state between q and p restores a state
\* saved before q
InEffect(a, p) ==
  \E q \in Matched(a, p - 1) :
    \A r \in Matched("--pop-state", p - 1) : r > q => Depth(r) >= Depth(q)

StateAt(p) ==
  [as_needed |-> InEffect("--as-needed", p), link_static |-> InEffect("-static", p)]

\* The --push-state that the --pop-state at r matches
MatchingPush(r) ==
  CHOOSE m \in Matched("--push-state", r) :
    /\ Depth(m) = Depth(r) + 1
    /\ \A q \in Matched("--push-state", r) : Depth(q) = Depth(r) + 1 => q <= m

\* The arguments among the first k that make an entry of opt.obj_file
EntryArgs(k) ==
  { q \in 1..k : /\ IsMatched(q)
                 /\ \/ StartsWithDashL(args[q])
                    \/ ~StartsWithDash(args[q])
                    \/ args[q] \in GroupOptions }

\* The argument that made entry x
ArgOfEntry(x) ==
  CHOOSE q \in EntryArgs(iter) : Cardinality(EntryArgs(q)) = x

PushPopArgs == << "--push-state", "--as-needed", "-la", "--pop-state", "-la" >>

\* C13: while parse_opts does not fail, every -l entry records the as_needed
\* and link_static state, and every file entry the as_needed state, in
\* effect at its position in the argument list; the state after a
\* --pop-state is the one in effect just before the matching --push-state,
\* whatever flags were set in between, and the entries after it carry it.
C13_PositionalState ==
  (result # "Err" /\ result # "Panic") =>
    /\ Len(opt.obj_file) = Cardinality(EntryArgs(iter))
    /\ \A x \in 1..Len(opt.obj_file) :
         LET p == ArgOfEntry(x) IN
         /\ StartsWithDashL(args[p]) =>
              opt.obj_file[x] = [type        |-> "Library",
                                 name        |-> StripPrefix(args[p]),
                                 as_needed   |-> StateAt(p).as_needed,
                                 link_static |-> StateAt(p).link_static]
         /\ ~StartsWithDash(args[p]) =>
              opt.obj_file[x] = [type      |-> "File",
                                 name      |-> args[p],
                                 as_needed |-> StateAt(p).as_needed]
    /\ cur_opt_stack = StateAt(iter + 1)
    /\ (iter > 0 /\ IsMatched(iter) /\ args[iter] = "--pop-state") =>
         cur_opt_stack = StateAt(MatchingPush(iter))
    /\ (args = PushPopArgs /\ result = "Ok") =>
         /\ opt.obj_file[1].as_needed
         /\ ~opt.obj_file[2].as_needed

\* --as-needed between --push-state and --pop-state: the library between
\* them is as_needed, the one after the --pop-state is not.
C13_Witness ==
  /\ args = PushPopArgs
  /\ result = "Ok"
  /\ Len(opt.obj_file) = 2
  /\ opt.obj_file[1].as_needed
  /\ ~opt.obj_file[2].as_needed
  /\ opt_stack = << >>

\* Two states saved, the inner one with --as-needed: the first --pop-state
\* restores the inner one.
C13_WitnessNested ==
  /\ args = << "--push-state", "--as-needed", "--push-state", "--pop-state", "x.o" >>
  /\ result = "Ok"
  /\ opt.obj_file = << [type |-> "File", name |-> "x.o", as_needed |-> TRUE] >>

====
